---- MODULE Spec2Model ----
(***************************************************************************)
(* Workspace ONE client library: the CMSURL authenticator                  *)
(* (auth/workspace_one_auth.py) and the three request dispatchers          *)
(* (mdm/mdm.py, mam/mam.py, system/system.py).                             *)
(*                                                                         *)
(* Text is a sequence of one-character strings, bytes are 0..255.          *)
(* Python's None is the record None; a present value v is Some(v).         *)
(***************************************************************************)
EXTENDS Integers, Sequences, FiniteSets, TLC

VARIABLES env, auth, pc, call, authCalls, failureRets, headers, sent, attempts,
          retries, result, threads, upload, report, lookup

vars == <<env, auth, pc, call, authCalls, failureRets, headers, sent, attempts,
          retries, result, threads, upload, report, lookup>>

None == [none |-> TRUE]
Some(v) == [none |-> FALSE, v |-> v]
IsNone(x) == x.none

(***************************************************************************)
(* Bounds of the model.                                                    *)
(***************************************************************************)
\* longest DER container the signer is taken to return, in bytes
MaxDerLen == 3

(***************************************************************************)
(* Text helpers.                                                           *)
(***************************************************************************)
\* str.find(c, from): first index >= from holding c, 0 when there is none
RECURSIVE Find(_, _, _)
Find(s, c, from) ==
  IF from > Len(s) THEN 0
  ELSE IF s[from] = c THEN from
  ELSE Find(s, c, from + 1)

\* str.rfind(c): last index holding c, 0 when there is none
RECURSIVE RFind(_, _, _)
RFind(s, c, upto) ==
  IF upto < 1 THEN 0
  ELSE IF s[upto] = c THEN upto
  ELSE RFind(s, c, upto - 1)

Tail2(s, i) == SubSeq(s, i, Len(s))

StartsWith(s, p) == Len(s) >= Len(p) /\ SubSeq(s, 1, Len(p)) = p

Min(S) == CHOOSE x \in S : \A y \in S : x <= y

(***************************************************************************)
(* urllib.parse.urlparse, as get_cmsurl_header uses it.                    *)
(***************************************************************************)
AsciiLetters == {"a", "b", "h", "p", "s", "t", "x", "H", "T", "P", "S"}
SchemeChars == AsciiLetters \cup {"1", "+", "-", "."}

lower(c) ==
  CASE c = "H" -> "h"
    [] c = "T" -> "t"
    [] c = "P" -> "p"
    [] c = "S" -> "s"
    [] OTHER -> c

lowerAll(s) == [i \in 1..Len(s) |-> lower(s[i])]

\* the schemes of urllib.parse.uses_params that the model's texts can spell
uses_params == {<<>>, <<"h", "t", "t", "p">>, <<"h", "t", "t", "p", "s">>}

\* urlsplit step 1: "<scheme>:" is split off when the text before the first
\* colon starts with an ASCII letter and holds scheme characters only
splitscheme(url) ==
  LET i == Find(url, ":", 1) IN
    IF i > 1 /\ url[1] \in AsciiLetters
             /\ \A k \in 1..(i - 1) : url[k] \in SchemeChars
    THEN [scheme |-> lowerAll(SubSeq(url, 1, i - 1)), rest |-> Tail2(url, i + 1)]
    ELSE [scheme |-> <<>>, rest |-> url]

\* urlsplit step 2: after "//" the netloc runs to the first of "/", "?", "#"
splitnetloc(url) ==
  IF StartsWith(url, <<"/", "/">>)
  THEN LET ends == {Find(url, d, 3) : d \in {"/", "?", "#"}} \ {0}
           delim == IF ends = {} THEN Len(url) + 1 ELSE Min(ends)
       IN [netloc |-> SubSeq(url, 3, delim - 1), rest |-> Tail2(url, delim)]
  ELSE [netloc |-> <<>>, rest |-> url]

\* urlsplit's check of the netloc: a "[" without "]" or a "]" without "["
\* makes urlsplit, and so urlparse, raise ValueError("Invalid IPv6 URL")
urlparse_raises(url) ==
  LET netloc == splitnetloc(splitscheme(url).rest).netloc
      has(c) == Find(netloc, c, 1) > 0
  IN (has("[") /\ ~has("]")) \/ (has("]") /\ ~has("["))

\* str.split(c, 1) when c occurs: the text before and after its first occurrence
splitfirst(url, c) ==
  LET i == Find(url, c, 1) IN
    IF i = 0 THEN [head |-> url, tail |-> <<>>]
    ELSE [head |-> SubSeq(url, 1, i - 1), tail |-> Tail2(url, i + 1)]

\* urllib.parse._splitparams: ";" is looked for in the last path segment only
splitparams(url) ==
  LET slash == RFind(url, "/", Len(url))
      i == IF slash > 0 THEN Find(url, ";", slash) ELSE Find(url, ";", 1)
  IN IF i = 0 THEN [head |-> url, tail |-> <<>>]
     ELSE [head |-> SubSeq(url, 1, i - 1), tail |-> Tail2(url, i + 1)]

urlparse(url) ==
  LET s == splitscheme(url)
      n == splitnetloc(s.rest)
      f == splitfirst(n.rest, "#")
      q == splitfirst(f.head, "?")
      p == IF s.scheme \in uses_params /\ Find(q.head, ";", 1) > 0
           THEN splitparams(q.head)
           ELSE [head |-> q.head, tail |-> <<>>]
  IN [scheme |-> s.scheme, netloc |-> n.netloc, path |-> p.head,
      params |-> p.tail, query |-> q.tail, fragment |-> f.tail]

(***************************************************************************)
(* str.encode("utf-8") over the characters the model's texts use.          *)
(***************************************************************************)
\* the one non-ASCII character of the model's alphabet: U+00E9
EAcute == "U+00E9"

CodePoint(c) ==
  CASE c = "/" -> 47
    [] c = ";" -> 59
    [] c = "a" -> 97
    [] c = "b" -> 98
    [] c = "p" -> 112
    [] c = "?" -> 63
    [] c = "x" -> 120
    [] c = "1" -> 49
    [] c = "7" -> 55
    [] c = "V" -> 86
    [] c = "c" -> 99
    [] c = "e" -> 101
    [] c = "f" -> 102
    [] c = "h" -> 104
    [] c = "i" -> 105
    [] c = "m" -> 109
    [] c = "n" -> 110
    [] c = "o" -> 111
    [] c = "r" -> 114
    [] c = "s" -> 115
    [] c = "t" -> 116
    [] c = "v" -> 118
    [] c = "y" -> 121
    [] c = EAcute -> 233

utf8char(c) ==
  LET n == CodePoint(c) IN
    IF n < 128 THEN <<n>>
    ELSE <<192 + (n \div 64), 128 + (n % 64)>>

RECURSIVE encode_utf8(_)
encode_utf8(s) ==
  IF s = <<>> THEN <<>>
  ELSE utf8char(Head(s)) \o encode_utf8(Tail(s))

(***************************************************************************)
(* base64.b64encode(...).decode()                                          *)
(***************************************************************************)
B64Alphabet ==
  <<"A", "B", "C", "D", "E", "F", "G", "H", "I", "J", "K", "L", "M",
    "N", "O", "P", "Q", "R", "S", "T", "U", "V", "W", "X", "Y", "Z",
    "a", "b", "c", "d", "e", "f", "g", "h", "i", "j", "k", "l", "m",
    "n", "o", "p", "q", "r", "s", "t", "u", "v", "w", "x", "y", "z",
    "0", "1", "2", "3", "4", "5", "6", "7", "8", "9", "+", "/">>

B64Char(n) == B64Alphabet[n + 1]

\* b64encode without the "=" padding of a last short group
RECURSIVE b64encode_NoPadding(_)
b64encode_NoPadding(b) ==
  IF Len(b) = 0 THEN <<>>
  ELSE IF Len(b) = 1 THEN
    <<B64Char(b[1] \div 4), B64Char((b[1] % 4) * 16)>>
  ELSE IF Len(b) = 2 THEN
    <<B64Char(b[1] \div 4),
      B64Char((b[1] % 4) * 16 + (b[2] \div 16)),
      B64Char((b[2] % 16) * 4)>>
  ELSE
    <<B64Char(b[1] \div 4),
      B64Char((b[1] % 4) * 16 + (b[2] \div 16)),
      B64Char((b[2] % 16) * 4 + (b[3] \div 64)),
      B64Char(b[3] % 64)>> \o b64encode_NoPadding(SubSeq(b, 4, Len(b)))

RECURSIVE b64encode(_)
b64encode(b) ==
  IF Len(b) = 0 THEN <<>>
  ELSE IF Len(b) = 1 THEN
    <<B64Char(b[1] \div 4), B64Char((b[1] % 4) * 16), "=", "=">>
  ELSE IF Len(b) = 2 THEN
    <<B64Char(b[1] \div 4),
      B64Char((b[1] % 4) * 16 + (b[2] \div 16)),
      B64Char((b[2] % 16) * 4), "=">>
  ELSE
    <<B64Char(b[1] \div 4),
      B64Char((b[1] % 4) * 16 + (b[2] \div 16)),
      B64Char((b[2] % 16) * 4 + (b[3] \div 64)),
      B64Char(b[3] % 64)>> \o b64encode(SubSeq(b, 4, Len(b)))

(***************************************************************************)
(* The certificate source: PKCS#12 bundles, the files that hold them and   *)
(* cryptography's pkcs12.load_key_and_certificates.                        *)
(***************************************************************************)
\* bundles by content: an RSA key with its certificate, a key of a type the
\* PKCS7 builder refuses (add_signer raises TypeError), a bundle without a
\* key, one without a certificate, and bytes that are no PKCS#12 at all
Bundles == {"p12_rsa", "p12_unsupported_key", "p12_no_key", "p12_no_cert",
            "garbage"}

BundlePassword == "pw"

\* open(path, "rb").read(): the bytes of the file, None when there is no file
ReadFile(path) ==
  IF path = "client.p12" THEN Some("p12_rsa") ELSE None

\* pkcs12.load_key_and_certificates: the bytes are parsed first, then
\* decrypted with the password; msg is the text of the ValueError
pkcs12_load_key_and_certificates(data, password) ==
  IF data = "garbage"
  THEN [raised |-> TRUE, e |-> "ValueError",
        msg |-> "Could not deserialize PKCS12 data", key |-> None, cert |-> None]
  ELSE IF password # BundlePassword
  THEN [raised |-> TRUE, e |-> "ValueError",
        msg |-> "Invalid password or PKCS12 data", key |-> None, cert |-> None]
  ELSE [raised |-> FALSE, e |-> "", msg |-> "",
        key |-> CASE data = "p12_rsa" -> Some("rsa_key")
                  [] data = "p12_unsupported_key" -> Some("unsupported_key")
                  [] data = "p12_no_cert" -> Some("rsa_key")
                  [] OTHER -> None,
        cert |-> IF data = "p12_no_cert" THEN None ELSE Some("x509")]

(***************************************************************************)
(* WorkspaceOneAuth                                                        *)
(***************************************************************************)
\* WorkspaceOneAuth(cert_path, cert_pw): the object has no use_memory_cert
\* attribute, which _load_p12_cert reads as False
WorkspaceOneAuth(cert_path, cert_pw) ==
  [cert_path |-> cert_path, cert_pw |-> cert_pw,
   use_memory_cert |-> FALSE, cert_bytes |-> None]

from_memory(cert_bytes, cert_pw) ==
  [WorkspaceOneAuth("", cert_pw) EXCEPT
     !.cert_bytes = Some(cert_bytes), !.use_memory_cert = TRUE]

\* one logger call: its level, the fixed text of its message and the values
\* its f-string interpolates
LogEntry(level, msg, arg) == [level |-> level, msg |-> msg, arg |-> arg]

\* _load_p12_cert putting the password it tried into its error message
_load_p12_cert_LogsPassword(self, p12_path, password) ==
  LET file == IF self.use_memory_cert THEN self.cert_bytes ELSE ReadFile(p12_path)
      opened == ~self.use_memory_cert
  IN IF IsNone(file)
     THEN [raised |-> TRUE, key |-> None, cert |-> None, opened |-> opened,
           parsed |-> file,
           log |-> <<LogEntry("error", "Error loading PKCS#12 file", <<"FileNotFoundError", p12_path>>)>>]
     ELSE LET r == pkcs12_load_key_and_certificates(file.v, password) IN
       IF r.raised
       THEN [raised |-> TRUE, key |-> None, cert |-> None, opened |-> opened,
             parsed |-> file,
             log |-> <<LogEntry("error", "Error loading PKCS#12 file", <<r.e, r.msg, password>>)>>]
       ELSE [raised |-> FALSE, key |-> r.key, cert |-> r.cert, opened |-> opened,
             parsed |-> file,
             log |-> <<LogEntry("info", "Successfully loaded PKCS#12 certificate", <<>>)>>]

\* _load_p12_cert reading the file at p12_path whatever use_memory_cert says
_load_p12_cert_AlwaysOpens(self, p12_path, password) ==
  LET file == ReadFile(p12_path) IN
    IF IsNone(file)
    THEN [raised |-> TRUE, key |-> None, cert |-> None, opened |-> TRUE,
          parsed |-> file,
          log |-> <<LogEntry("error", "Error loading PKCS#12 file", <<"FileNotFoundError", p12_path>>)>>]
    ELSE LET r == pkcs12_load_key_and_certificates(file.v, password) IN
      [raised |-> r.raised, key |-> r.key, cert |-> r.cert, opened |-> TRUE,
       parsed |-> file,
       log |-> IF r.raised
               THEN <<LogEntry("error", "Error loading PKCS#12 file", <<r.e, r.msg>>)>>
               ELSE <<LogEntry("info", "Successfully loaded PKCS#12 certificate", <<>>)>>]

\* the outcome of _load_p12_cert: raised (CMSURLError) or the (key, cert)
\* pair; opened: a file was opened; parsed: the bytes handed to
\* load_key_and_certificates (None when there were none to hand over)
_load_p12_cert(self, p12_path, password) ==
  LET file == IF self.use_memory_cert THEN self.cert_bytes ELSE ReadFile(p12_path)
      opened == ~self.use_memory_cert
  IN IF IsNone(file)
     THEN [raised |-> TRUE, key |-> None, cert |-> None, opened |-> opened,
           parsed |-> file,
           log |-> <<LogEntry("error", "Error loading PKCS#12 file", <<"FileNotFoundError", p12_path>>)>>]
     ELSE LET r == pkcs12_load_key_and_certificates(file.v, password) IN
       IF r.raised
       THEN [raised |-> TRUE, key |-> None, cert |-> None, opened |-> opened,
             parsed |-> file,
             log |-> <<LogEntry("error", "Error loading PKCS#12 file", <<r.e, r.msg>>)>>]
       ELSE [raised |-> FALSE, key |-> r.key, cert |-> r.cert, opened |-> opened,
             parsed |-> file,
             log |-> <<LogEntry("info", "Successfully loaded PKCS#12 certificate", <<>>)>>]

\* the outcome of _sign_data: the DER container der the builder produces, or
\* None when the builder raises; data_bytes is what set_data was given
_sign_data(private_key, certificate, data, der) ==
  LET data_bytes == encode_utf8(data) IN
    IF private_key = "unsupported_key"
    THEN [ret |-> None, data_bytes |-> data_bytes,
          log |-> <<LogEntry("error", "Exception in CMS signing", <<"TypeError">>)>>]
    ELSE [ret |-> Some(der), data_bytes |-> data_bytes,
          log |-> <<LogEntry("debug", "CMS signature generated", <<>>)>>]

\* the grave accent U+0060 of the literal prefix
Backtick == "U+0060"

CMSURLPrefix == <<"C", "M", "S", "U", "R", "L", Backtick, "1", " ">>

\* one invocation of get_cmsurl_header: what it returns (ret) or the
\* exception that leaves it (raised), whether it called _sign_data and with
\* which bytes, which step failed, what it logged
AbortedLoad(load) ==
  [ret |-> None, raised |-> None, signed |-> FALSE, signInput |-> <<>>,
   container |-> None, failure |-> "certificate", opened |-> load.opened,
   parsed |-> load.parsed,
   log |-> load.log \o <<LogEntry("error", "Failed to load certificate", <<>>)>>]

\* get_cmsurl_header without its check of the loaded key and certificate:
\* it goes on to _sign_data with whatever the load returned
get_cmsurl_header_NoMaterialCheck(self, url, der) ==
  LET load == _load_p12_cert(self, self.cert_path, self.cert_pw) IN
    IF load.raised THEN AbortedLoad(load)
    ELSE
      [ret |-> IF IsNone(load.key) \/ IsNone(load.cert) \/ load.key = Some("unsupported_key")
               THEN None ELSE Some(CMSURLPrefix \o b64encode(der)),
       raised |-> None,
       signed |-> TRUE, signInput |-> encode_utf8(urlparse(url).path),
       container |-> IF IsNone(load.key) \/ IsNone(load.cert) \/ load.key = Some("unsupported_key")
                     THEN None ELSE Some(der),
       failure |-> IF IsNone(load.key) \/ IsNone(load.cert) \/ load.key = Some("unsupported_key")
                   THEN "signing" ELSE "none",
       opened |-> load.opened, parsed |-> load.parsed, log |-> load.log]

\* the outcome of get_cmsurl_header when urlparse(url) raises: the
\* ValueError is not caught and leaves get_cmsurl_header
UrlRejected(load) ==
  [ret |-> None, raised |-> Some("ValueError"), signed |-> FALSE,
   signInput |-> <<>>, container |-> None, failure |-> "url",
   opened |-> load.opened, parsed |-> load.parsed, log |-> load.log]

\* the rest of get_cmsurl_header once key and certificate are there
sign_and_format(load, url, der) ==
  LET canonical_path == urlparse(url).path
      cms == _sign_data(load.key.v, load.cert.v, canonical_path, der)
      log == load.log \o <<LogEntry("debug", "Signing canonical URL", canonical_path)>>
               \o cms.log
  IN IF IsNone(cms.ret)
     THEN [ret |-> None, raised |-> None, signed |-> TRUE,
           signInput |-> cms.data_bytes, container |-> None,
           failure |-> "signing", opened |-> load.opened, parsed |-> load.parsed,
           log |-> log \o <<LogEntry("error", "Signing failed", <<>>)>>]
     ELSE [ret |-> Some(CMSURLPrefix \o b64encode(cms.ret.v)), raised |-> None,
           signed |-> TRUE, signInput |-> cms.data_bytes,
           container |-> cms.ret, failure |-> "none", opened |-> load.opened,
           parsed |-> load.parsed,
           log |-> log \o <<LogEntry("info", "CMSURL header successfully generated", <<>>)>>]

\* get_cmsurl_header without its except clause: the CMSURLError of
\* _load_p12_cert leaves get_cmsurl_header
header_from_load_NoExcept(load, url, der) ==
  IF load.raised
  THEN [AbortedLoad(load) EXCEPT !.raised = Some("CMSURLError"), !.log = load.log]
  ELSE IF IsNone(load.key) \/ IsNone(load.cert) THEN AbortedLoad(load)
  ELSE IF urlparse_raises(url) THEN UrlRejected(load)
  ELSE sign_and_format(load, url, der)

\* get_cmsurl_header from the point where _load_p12_cert has returned or
\* raised: load is its outcome
header_from_load(load, url, der) ==
  IF load.raised THEN AbortedLoad(load)
  ELSE IF IsNone(load.key) \/ IsNone(load.cert) THEN AbortedLoad(load)
  ELSE IF urlparse_raises(url) THEN UrlRejected(load)
  ELSE sign_and_format(load, url, der)

get_cmsurl_header(self, url, der) ==
  header_from_load(_load_p12_cert(self, self.cert_path, self.cert_pw), url, der)

(***************************************************************************)
(* AWEnvironment                                                           *)
(***************************************************************************)
\* Python truthiness of an optional text: None and "" are falsy
Falsy(x) == IsNone(x) \/ x.v = <<>>

\* AWEnvironment.__init__ testing api_url only
AWEnvironment_NoTenantCheck(api_url, tenant_code, parent_og) ==
  IF Falsy(api_url)
  THEN [raised |-> TRUE, e |-> "ValueError"]
  ELSE [raised |-> FALSE, e |-> "", api_url |-> api_url.v,
        tenant_code |-> IF IsNone(tenant_code) THEN <<>> ELSE tenant_code.v,
        parent_og |-> parent_og, environment |-> None]

\* AWEnvironment(api_url, tenant_code, parent_og): raises ValueError or yields
\* the object. __init__ sets no attribute named environment.
AWEnvironment(api_url, tenant_code, parent_og) ==
  IF Falsy(api_url) \/ Falsy(tenant_code)
  THEN [raised |-> TRUE, e |-> "ValueError"]
  ELSE [raised |-> FALSE, e |-> "", api_url |-> api_url.v,
        tenant_code |-> tenant_code.v, parent_og |-> parent_og,
        environment |-> None]

(***************************************************************************)
(* urllib3.util.retry.Retry and the adapters of requests, as configured by *)
(* System.__init__ (a Retry mounted for "https://") and by requests'       *)
(* defaults (every other request).                                         *)
(***************************************************************************)
RetryTotal == 3
BackoffFactor == 1
Timeout == 90

\* a status_forcelist that also lists 404
StatusForcelist_With404 == {404, 500, 502, 503, 504}

StatusForcelist == {500, 502, 503, 504}

\* urllib3's Retry.DEFAULT_ALLOWED_METHODS: Retry(...) is built without
\* allowed_methods
DefaultAllowedMethods == {"HEAD", "GET", "PUT", "DELETE", "OPTIONS", "TRACE"}

\* urllib3's Retry.RETRY_AFTER_STATUS_CODES: respect_retry_after_header is
\* left at its default True
RetryAfterStatusCodes == {413, 429, 503}

\* the Retry object with one retry fewer
SystemRetry_OneFewer ==
  [total |-> RetryTotal - 1, backoff_factor |-> BackoffFactor,
   status_forcelist |-> StatusForcelist, read |-> None]

\* the Retry object with one retry more
SystemRetry_OneMore ==
  [total |-> RetryTotal + 1, backoff_factor |-> BackoffFactor,
   status_forcelist |-> StatusForcelist, read |-> None]

\* Retry(total=3, backoff_factor=1, status_forcelist=[500, 502, 503, 504])
SystemRetry ==
  [total |-> RetryTotal, backoff_factor |-> BackoffFactor,
   status_forcelist |-> StatusForcelist, read |-> None]

\* requests.adapters.DEFAULT_RETRIES: Retry(0, read=False)
DefaultRetry ==
  [total |-> 0, backoff_factor |-> 0, status_forcelist |-> {}, read |-> Some(FALSE)]

HttpsPrefix == <<"h", "t", "t", "p", "s", ":", "/", "/">>

is_method_retryable(method) == method \in DefaultAllowedMethods

is_retry(retry, method, status_code, has_retry_after) ==
  IF ~is_method_retryable(method) THEN FALSE
  ELSE IF status_code \in retry.status_forcelist THEN TRUE
  ELSE retry.total # 0 /\ has_retry_after /\ status_code \in RetryAfterStatusCodes

\* Retry.increment followed by is_exhausted
increment(retry) == [retry EXCEPT !.total = retry.total - 1]
is_exhausted(retry) == retry.total < 0

(***************************************************************************)
(* The three dispatchers.                                                  *)
(***************************************************************************)
Clients == {"MDM", "MAM", "System"}

\* how a resource method gets its request sent
\* "send": the method formats the whole URL and calls _send_request;
\* "params": a System method that calls _get_headers and the session itself,
\* passing the query as params;
\* "accept_send": a System method that calls _get_headers, sets Accept on the
\* dict it got and then calls _send_request (get_dropship_provisioning);
\* "accept_direct": a System method that calls _get_headers, sets Accept and
\* calls the session itself with that dict (get_device_wipe_lock_state)
Styles == {"send", "params", "accept_send", "accept_direct"}

AcceptStyles == {"accept_send", "accept_direct"}

\* the styles whose request is sent by _send_request, with the headers
\* _send_request builds
SendRequestStyles == {"send", "accept_send"}

\* System.__init__ reads aw_environment.environment, MDM and MAM do not
ClientInit(client, awEnvironment) ==
  IF client = "System" /\ IsNone(awEnvironment.environment)
  THEN [raised |-> TRUE, e |-> "AttributeError"]
  ELSE [raised |-> FALSE, e |-> ""]

\* the Retry object of the adapter that sends url: System's session mounts
\* SystemRetry for "https://"; requests.request and every other prefix use
\* the default adapter
\* every dispatcher going through a session with the Retry adapter mounted
get_adapter_retries_AllClients(client, url) ==
  IF StartsWith(lowerAll(url), HttpsPrefix) THEN SystemRetry ELSE DefaultRetry

get_adapter_retries(client, url) ==
  IF client = "System" /\ StartsWith(lowerAll(url), HttpsPrefix)
  THEN SystemRetry
  ELSE DefaultRetry

ContentTypeJson == <<"application/json">>

\* _get_headers, given what get_cmsurl_header returned
_get_headers(authorization, tenant_code) ==
  ("Authorization" :> authorization)
    @@ ("aw-tenant-code" :> Some(tenant_code))
    @@ ("Content-Type" :> Some(ContentTypeJson))

\* "application/json;version=1"
AcceptV1 ==
  <<"a", "p", "p", "l", "i", "c", "a", "t", "i", "o", "n", "/", "j", "s", "o",
    "n", ";", "v", "e", "r", "s", "i", "o", "n", "=", "1">>

\* headers["Accept"] = "application/json;version=1"
set_accept(hdrs) == ("Accept" :> Some(AcceptV1)) @@ hdrs

\* requests.sessions.merge_setting: keys whose value is None are removed
merge_setting(request_headers) ==
  [k \in {n \in DOMAIN request_headers : ~IsNone(request_headers[n])} |->
     request_headers[k].v]

\* the URL requests sends: params are appended as the query string
prepare_url(url, params) ==
  IF params = <<>> THEN url ELSE url \o <<"?">> \o params

\* the call sites where only _send_request passes a timeout and the methods
\* calling the session themselves pass none (0: no timeout)
request_timeout_OnlySendRequest(client, style) ==
  IF style \in SendRequestStyles THEN Timeout ELSE 0

\* the timeout argument at the call site that issues the request:
\* requests.request(..., timeout=90) in MDM and MAM, session.request(...,
\* timeout=90) in System._send_request, session.get/post/put/delete(...,
\* timeout=90) in the System methods calling the session themselves
request_timeout(client, style) == Timeout

\* APIRequestError(message, status_code=None)
APIRequestError(message, status_code) ==
  [kind |-> "raise", exc |-> "APIRequestError", message |-> message,
   status_code |-> status_code]

\* the except clause of _send_request, e a requests.RequestException with
\* e.response the response (HTTPError) or None
on_RequestException(client, e_response) ==
  IF client = "MAM"
  THEN APIRequestError("str(e)", None)
  ELSE APIRequestError("API request failed",
         IF IsNone(e_response) THEN None ELSE Some(e_response.v.status_code))

\* response.json() over the body texts of the model
EmptyText == <<>>
JsonText == <<"{", "k", ":", "1", "}">>
json(text) == IF text = JsonText THEN {<<"k", 1>>} ELSE {}

\* the try block without the test of response.text: response.json() of an
\* empty body raises JSONDecodeError, a RequestException without a response
on_response_NoEmptyCheck(client, response) ==
  IF response.status_code >= 400 /\ response.status_code < 600
  THEN on_RequestException(client, Some(response))
  ELSE IF response.text = EmptyText THEN on_RequestException(client, None)
  ELSE [kind |-> "return", value |-> json(response.text)]

\* the try block of _send_request once the adapter hands back a response
on_response(client, response) ==
  IF response.status_code >= 400 /\ response.status_code < 600
  THEN on_RequestException(client, Some(response))
  ELSE [kind |-> "return",
        value |-> IF response.text # EmptyText THEN json(response.text) ELSE {}]

(***************************************************************************)
(* Inputs of the model.                                                    *)
(***************************************************************************)
\* the base URLs of the environments: URLs urlparse accepts
ApiUrls == {<<"h", "t", "t", "p", "s", ":", "/", "/", "h">>,
            <<"h", "t", "t", "p", ":", "/", "/", "h">>}

TenantCode == <<"t">>

\* the environments a client is built over: AWEnvironment objects, and the
\* same objects carrying the environment attribute System.__init__ reads
Environments ==
  {[AWEnvironment(Some(u), Some(TenantCode), None) EXCEPT !.environment = e] :
     u \in ApiUrls, e \in {None, Some("prod")}}

AuthConfigs ==
  {WorkspaceOneAuth("client.p12", "pw"), WorkspaceOneAuth("client.p12", "wrong"),
   WorkspaceOneAuth("missing.p12", "pw"), WorkspaceOneAuth("", "pw"),
   WorkspaceOneAuth("client.p12", "")}
  \cup {from_memory(b, "pw") : b \in Bundles}

\* what a resource method formats after api_url: a path and a query string
Endpoints ==
  {[path |-> <<"/", "a">>, query |-> <<>>],
   [path |-> <<"/", "a">>, query |-> <<"x">>],
   [path |-> <<"/", "b", ";", "p">>, query |-> <<>>],
   [path |-> <<"/", EAcute>>, query |-> <<"x">>]}

Methods == {"GET", "POST"}

DerBytes == <<48, 130, 255, 7, 1>>
Containers == {SubSeq(DerBytes, 1, n) : n \in 1..MaxDerLen}

Response(status_code, retry_after, text) ==
  [kind |-> "response", status_code |-> status_code,
   retry_after |-> retry_after, text |-> text]

\* what the transport can answer one attempt with
Answers ==
  {Response(200, FALSE, JsonText), Response(200, FALSE, EmptyText),
   Response(401, FALSE, EmptyText), Response(404, FALSE, JsonText),
   Response(429, TRUE, EmptyText),
   Response(500, FALSE, EmptyText), Response(502, FALSE, EmptyText),
   Response(503, FALSE, EmptyText), Response(504, FALSE, EmptyText),
   [kind |-> "connect_error"], [kind |-> "read_error"]}

(***************************************************************************)
(* State.                                                                  *)
(*   env, auth    the shared AWEnvironment and WorkspaceOneAuth objects     *)
(*   pc           "idle", "transport" (a request is with the adapter),     *)
(*                "done"                                                   *)
(*   call         the running or last call and the parts its URL was       *)
(*                formatted from                                           *)
(*   authCalls    the get_cmsurl_header invocations of that call           *)
(*   failureRets  per kind of failure, what get_cmsurl_header returned the  *)
(*                last time it failed that way (None: not seen yet)        *)
(*   headers      the dict _get_headers built                              *)
(*   sent         the request handed to the adapter                        *)
(*   attempts     what the transport answered, one entry per attempt       *)
(*   retries      the adapter's Retry object for this request              *)
(*   result       what the call gave its caller                            *)
(*   threads      per thread of a program that dispatches from several     *)
(*                threads, the locals of its running _send_request call    *)
(*   upload       the locals of a MAM.upload_blob call                     *)
(*   report       the DeviceHealthReportTracker and the locals of          *)
(*                run_airwatch_device_health_check                         *)
(*   lookup       the arguments, searches and result of a                  *)
(*                get_device_extensive_search call                         *)
(***************************************************************************)
NoCall == [client |-> "", method |-> "", style |-> "", url |-> <<>>,
           path |-> <<>>, query |-> <<>>, params |-> <<>>]
NoRequest == [method |-> "", url |-> <<>>, headers |-> <<>>, timeout |-> 0]
Pending == [kind |-> "pending"]

\* the threads of a program that dispatches concurrently, and the locals of
\* a thread that has not called yet
Threads == {"t1", "t2"}
NoHeaderCall == [ret |-> None, raised |-> None, signed |-> FALSE, signInput |-> <<>>,
                 container |-> None, failure |-> "none", opened |-> FALSE,
                 parsed |-> None, log |-> <<>>]
IdleThread == [pc |-> "idle", client |-> "", method |-> "", url |-> <<>>,
               path |-> <<>>, load |-> None, hc |-> NoHeaderCall,
               sent |-> NoRequest, answer |-> None, result |-> Pending]

\* the variables of the programs built on the clients
programVars == <<upload, report, lookup>>

\* upload_blob not called
NoUpload == [pc |-> "idle", file |-> "none", issued |-> FALSE,
             file_at_issue |-> "none", result |-> Pending]

\* DeviceHealthReportTracker(organization_group_id, page_size) as __init__
\* leaves it
DeviceHealthReportTracker(page_size) ==
  [make_next_call |-> TRUE, error_message |-> <<>>, page_counter |-> 0,
   total_devices |-> 0, max_amount_of_pages |-> 0, success |-> TRUE,
   page_size |-> page_size]

\* run_airwatch_device_health_check not called: total_devices is the local
\* of that name (0 until the count request has ended), count_requests are the
\* (page_size, page) arguments of the count request, requested those of the
\* page requests, pages the Devices lists received, in request order, and
\* failed the request whose exception was caught
NoReport == [pc |-> "idle", tracker |-> None, count_requests |-> <<>>,
             total_devices |-> 0,
             requested |-> <<>>, pages |-> <<>>, all_device_data |-> <<>>,
             failed |-> "none", result |-> Pending]

\* get_device_extensive_search not called
NoLookup == [pc |-> "idle", device_serial_number |-> None, device_id |-> None,
             searches |-> <<>>, result |-> Pending]

Init ==
  /\ env \in Environments
  /\ auth \in AuthConfigs
  /\ pc = "idle"
  /\ call = NoCall
  /\ authCalls = <<>>
  /\ failureRets = [certificate |-> None, signing |-> None]
  /\ headers = <<>>
  /\ sent = NoRequest
  /\ attempts = <<>>
  /\ retries = DefaultRetry
  /\ result = Pending
  /\ threads = [t \in Threads |-> IdleThread]
  /\ upload = NoUpload
  /\ report = NoReport
  /\ lookup = NoLookup

NoteFailure(hc) ==
  IF hc.failure \notin {"certificate", "signing"} THEN failureRets
  ELSE [failureRets EXCEPT ![hc.failure] = Some(hc.ret)]

FormatUrl(api_url, endpoint, inline_query) ==
  api_url \o endpoint.path
    \o (IF inline_query /\ endpoint.query # <<>> THEN <<"?">> \o endpoint.query
        ELSE <<>>)

\* WorkspaceOneAuth(...) or WorkspaceOneAuth.from_memory(...): the program
\* replaces its authenticator between calls
NewAuth(cfg) ==
  /\ pc \in {"idle", "done"}
  /\ auth' = cfg
  /\ pc' = "idle"
  /\ call' = NoCall
  /\ authCalls' = <<>>
  /\ headers' = <<>>
  /\ sent' = NoRequest
  /\ attempts' = <<>>
  /\ retries' = DefaultRetry
  /\ result' = Pending
  /\ UNCHANGED <<env, failureRets, threads, programVars>>

\* get_cmsurl_header keeping the loaded key and certificate on the object
GetHeader_KeepsMaterial(api_url, endpoint, der) ==
  /\ pc \in {"idle", "done"}
  /\ LET url == FormatUrl(api_url, endpoint, TRUE)
         hc == get_cmsurl_header(auth, url, der)
         load == _load_p12_cert(auth, auth.cert_path, auth.cert_pw)
     IN /\ call' = [client |-> "caller", method |-> "", style |-> "auth",
                    url |-> url, path |-> endpoint.path,
                    query |-> endpoint.query, params |-> <<>>]
        /\ authCalls' = <<hc>>
        /\ failureRets' = NoteFailure(hc)
        /\ result' = IF IsNone(hc.raised)
                     THEN [kind |-> "return", value |-> hc.ret]
                     ELSE [kind |-> "raise", exc |-> hc.raised.v]
        /\ auth' = [cert_path |-> auth.cert_path, cert_pw |-> auth.cert_pw,
                    use_memory_cert |-> auth.use_memory_cert,
                    cert_bytes |-> auth.cert_bytes,
                    private_key |-> load.key, certificate |-> load.cert]
  /\ pc' = "done"
  /\ headers' = <<>>
  /\ sent' = NoRequest
  /\ attempts' = <<>>
  /\ retries' = DefaultRetry
  /\ UNCHANGED <<env, threads, programVars>>

\* a caller invokes auth.get_cmsurl_header(url) itself
GetHeader(api_url, endpoint, der) ==
  /\ pc \in {"idle", "done"}
  /\ LET url == FormatUrl(api_url, endpoint, TRUE)
         hc == get_cmsurl_header(auth, url, der)
     IN /\ call' = [client |-> "caller", method |-> "", style |-> "auth",
                    url |-> url, path |-> endpoint.path,
                    query |-> endpoint.query, params |-> <<>>]
        /\ authCalls' = <<hc>>
        /\ failureRets' = NoteFailure(hc)
        /\ result' = IF IsNone(hc.raised)
                     THEN [kind |-> "return", value |-> hc.ret]
                     ELSE [kind |-> "raise", exc |-> hc.raised.v]
  /\ pc' = "done"
  /\ headers' = <<>>
  /\ sent' = NoRequest
  /\ attempts' = <<>>
  /\ retries' = DefaultRetry
  /\ UNCHANGED <<env, auth, threads, programVars>>

\* a resource method up to the point where the request is with the adapter:
\* the URL is formatted, _get_headers signs it, the request is prepared
Dispatch(client, method, style, endpoint, der) ==
  /\ pc = "idle"
  /\ ~ClientInit(client, env).raised
  /\ style # "send" => client = "System"
  /\ LET url == FormatUrl(env.api_url, endpoint, style # "params")
         params == IF style = "params" THEN endpoint.query ELSE <<>>
         hc == get_cmsurl_header(auth, url, der)
         \* the dict the method holds: the one it built itself, with its
         \* Accept override, or the one _send_request builds for it
         hdrs == IF style \in AcceptStyles
                 THEN set_accept(_get_headers(hc.ret, env.tenant_code))
                 ELSE _get_headers(hc.ret, env.tenant_code)
         \* the headers argument of the request: _send_request calls
         \* _get_headers(url) itself and passes that dict
         passed == IF style \in SendRequestStyles
                   THEN _get_headers(hc.ret, env.tenant_code)
                   ELSE hdrs
     IN /\ call' = [client |-> client, method |-> method, style |-> style,
                    url |-> url, path |-> endpoint.path,
                    query |-> endpoint.query, params |-> params]
        /\ authCalls' = IF style = "accept_send" THEN <<hc, hc>> ELSE <<hc>>
        /\ failureRets' = NoteFailure(hc)
        /\ headers' = hdrs
        /\ sent' = [method |-> method, url |-> prepare_url(url, params),
                    headers |-> merge_setting(passed),
                    timeout |-> request_timeout(client, style)]
        /\ retries' = get_adapter_retries(client, url)
  /\ pc' = "transport"
  /\ attempts' = <<>>
  /\ result' = Pending
  /\ UNCHANGED <<env, auth, threads, programVars>>

\* what urlopen does with one answer: "retry" (send again with the Retry
\* object incremented), "raise" (a RequestException without a response) or
\* "response" (the answer goes back to the dispatcher)
after_attempt(retry, method, answer) ==
  IF answer.kind = "connect_error"
  THEN IF is_exhausted(increment(retry)) THEN "raise" ELSE "retry"
  ELSE IF answer.kind = "read_error"
  THEN IF retry.read = Some(FALSE) \/ ~is_method_retryable(method) THEN "raise"
       ELSE IF is_exhausted(increment(retry)) THEN "raise" ELSE "retry"
  ELSE IF is_retry(retry, method, answer.status_code, answer.retry_after)
  THEN IF is_exhausted(increment(retry)) THEN "raise" ELSE "retry"
  ELSE "response"

\* one transport attempt and what follows from its answer
Transport(answer) ==
  /\ pc = "transport"
  /\ attempts' = Append(attempts, answer)
  /\ LET next == after_attempt(retries, call.method, answer) IN
       IF next = "retry"
       THEN /\ retries' = increment(retries)
            /\ pc' = "transport"
            /\ result' = result
       ELSE /\ retries' = retries
            /\ pc' = "done"
            /\ result' = IF next = "raise"
                         THEN on_RequestException(call.client, None)
                         ELSE on_response(call.client, answer)
  /\ UNCHANGED <<env, auth, call, authCalls, failureRets, headers, sent, threads, programVars>>

\* the call has returned or raised: the caller goes on to its next call
Return ==
  /\ pc = "done"
  /\ pc' = "idle"
  /\ call' = NoCall
  /\ authCalls' = <<>>
  /\ headers' = <<>>
  /\ sent' = NoRequest
  /\ attempts' = <<>>
  /\ retries' = DefaultRetry
  /\ result' = Pending
  /\ UNCHANGED <<env, auth, failureRets, threads, programVars>>

Next ==
  \/ \E c \in Clients, m \in Methods, s \in Styles, e \in Endpoints,
        der \in Containers : Dispatch(c, m, s, e, der)
  \/ \E a \in Answers : Transport(a)
  \/ Return

Spec == Init /\ [][Next]_vars

\* what a program passes to AWEnvironment(...): each argument absent (None),
\* empty or a text
ApiUrlArgs == {None, Some(<<>>)} \cup {Some(u) : u \in ApiUrls}
TenantCodeArgs == {None, Some(<<>>), Some(TenantCode)}
ParentOgArgs == {None, Some(<<>>), Some(<<"o", "g">>)}

\* env = AWEnvironment(api_url, tenant_code, parent_og): when __init__ raises
\* the name keeps the object it had
NewEnvironment(api_url, tenant_code, parent_og) ==
  /\ pc \in {"idle", "done"}
  /\ LET made == AWEnvironment(api_url, tenant_code, parent_og) IN
       /\ env' = IF made.raised THEN env ELSE made
       /\ result' = IF made.raised
                    THEN [kind |-> "raise", exc |-> made.e]
                    ELSE [kind |-> "return", value |-> made]
  /\ call' = [NoCall EXCEPT !.client = "AWEnvironment", !.method = "__init__",
                            !.params = <<api_url, tenant_code, parent_og>>]
  /\ pc' = "done"
  /\ authCalls' = <<>>
  /\ headers' = <<>>
  /\ sent' = NoRequest
  /\ attempts' = <<>>
  /\ retries' = DefaultRetry
  /\ UNCHANGED <<auth, failureRets, threads, programVars>>

\* the attributes a client's __init__ leaves on the object: MAM and System
\* copy api_url and tenant_code, System mounts its Retry for "https://"
ClientObject(client, awEnvironment) ==
  [aw_environment |-> awEnvironment,
   api_url |-> IF client = "MDM" THEN None ELSE Some(awEnvironment.api_url),
   tenant_code |-> IF client = "MDM" THEN None ELSE Some(awEnvironment.tenant_code),
   mounted |-> IF client = "System" THEN {<<HttpsPrefix, SystemRetry>>} ELSE {}]

\* MDM(env, auth), MAM(env, auth) or System(env, auth)
NewClient(client) ==
  /\ pc \in {"idle", "done"}
  /\ LET made == ClientInit(client, env) IN
       result' = IF made.raised
                 THEN [kind |-> "raise", exc |-> made.e]
                 ELSE [kind |-> "return", value |-> ClientObject(client, env)]
  /\ call' = [NoCall EXCEPT !.client = client, !.method = "__init__"]
  /\ pc' = "done"
  /\ authCalls' = <<>>
  /\ headers' = <<>>
  /\ sent' = NoRequest
  /\ attempts' = <<>>
  /\ retries' = DefaultRetry
  /\ UNCHANGED <<env, auth, failureRets, threads, programVars>>

\* the configuration object on its own
NextEnv ==
  \/ \E u \in ApiUrlArgs, t \in TenantCodeArgs, og \in ParentOgArgs :
       NewEnvironment(u, t, og)
  \/ \E c \in Clients : NewClient(c)

SpecEnv == Init /\ [][NextEnv]_vars

\* what the transport answers a request of a concurrent call with
ConcAnswers ==
  {Response(200, FALSE, JsonText), Response(404, FALSE, JsonText),
   [kind |-> "connect_error"]}

\* the variables of the one-call-at-a-time program
sequentialVars ==
  <<pc, call, authCalls, failureRets, headers, sent, attempts, retries, result>>

\* thread t calls an MDM resource method: the method formats its URL from
\* the shared environment and calls _send_request; the calls that run at the
\* same time are for different URLs
T_Start(t, method, endpoint) ==
  /\ threads[t].pc = "idle"
  /\ LET url == FormatUrl(env.api_url, endpoint, TRUE) IN
       /\ \A u \in Threads \ {t} : threads[u].url # url
       /\ threads' = [threads EXCEPT ![t] =
            [@ EXCEPT !.pc = "load", !.client = "MDM", !.method = method,
                      !.url = url, !.path = endpoint.path]]
  /\ UNCHANGED <<env, auth, sequentialVars, programVars>>

\* get_cmsurl_header, first half: _load_p12_cert reads the shared
\* authenticator into the locals private_key and certificate; a failed load
\* ends get_cmsurl_header there
T_Load(t) ==
  /\ threads[t].pc = "load"
  /\ LET load == _load_p12_cert(auth, auth.cert_path, auth.cert_pw)
         fails == load.raised \/ IsNone(load.key) \/ IsNone(load.cert)
     IN threads' = [threads EXCEPT ![t] =
          [@ EXCEPT !.load = Some(load),
                    !.pc = IF fails THEN "send" ELSE "sign",
                    !.hc = IF fails
                           THEN header_from_load(load, threads[t].url, <<>>)
                           ELSE threads[t].hc]]
  /\ UNCHANGED <<env, auth, sequentialVars, programVars>>

\* get_cmsurl_header, second half: the path of the thread's own URL is
\* signed with the loaded key and certificate
T_Sign(t, der) ==
  /\ threads[t].pc = "sign"
  /\ threads' = [threads EXCEPT ![t] =
       [@ EXCEPT !.hc = header_from_load(threads[t].load.v, threads[t].url, der),
                 !.pc = "send"]]
  /\ UNCHANGED <<env, auth, sequentialVars, programVars>>

\* _get_headers builds the dict and requests.request sends the request
T_Send(t) ==
  /\ threads[t].pc = "send"
  /\ LET hdrs == _get_headers(threads[t].hc.ret, env.tenant_code) IN
       threads' = [threads EXCEPT ![t] =
         [@ EXCEPT !.sent = [method |-> threads[t].method, url |-> threads[t].url,
                             headers |-> merge_setting(hdrs),
                             timeout |-> request_timeout(threads[t].client, "send")],
                   !.pc = "wait"]]
  /\ UNCHANGED <<env, auth, sequentialVars, programVars>>

\* the transport answers the thread's request: requests.request has no
\* retries, the answer ends the call
T_Answer(t, answer) ==
  /\ threads[t].pc = "wait"
  /\ after_attempt(DefaultRetry, threads[t].method, answer) # "retry"
  /\ threads' = [threads EXCEPT ![t] =
       [@ EXCEPT !.answer = Some(answer),
                 !.result =
                   IF after_attempt(DefaultRetry, threads[t].method, answer) = "raise"
                   THEN on_RequestException(threads[t].client, None)
                   ELSE on_response(threads[t].client, answer),
                 !.pc = "done"]]
  /\ UNCHANGED <<env, auth, sequentialVars, programVars>>

NextConc ==
  \E t \in Threads :
    \/ \E m \in Methods, e \in Endpoints : T_Start(t, m, e)
    \/ T_Load(t)
    \/ \E der \in Containers : T_Sign(t, der)
    \/ T_Send(t)
    \/ \E a \in ConcAnswers : T_Answer(t, a)

SpecConc == Init /\ [][NextConc]_vars

(***************************************************************************)
(* MAM.upload_blob                                                         *)
(***************************************************************************)
\* requests' _encode_files reads the file object of files= while the
\* request is prepared: fp.read() of a closed file raises ValueError
encode_files(file) ==
  IF file = "closed" THEN [raised |-> TRUE, e |-> "ValueError"]
  ELSE [raised |-> FALSE, e |-> ""]

\* with open(apk_file_path, "rb") as file: open raises when there is no
\* such file, an exception upload_blob does not catch
U_Open(exists) ==
  /\ upload.pc = "idle"
  /\ upload' = IF exists
               THEN [upload EXCEPT !.pc = "with", !.file = "open"]
               ELSE [upload EXCEPT !.pc = "done",
                       !.result = [kind |-> "raise", exc |-> "FileNotFoundError"]]
  /\ UNCHANGED <<env, auth, sequentialVars, threads, report, lookup>>

\* files = {"file": file}, the one statement of the with block, and the end
\* of the block, which closes the file
U_ExitWith ==
  /\ upload.pc = "with"
  /\ upload' = [upload EXCEPT !.pc = "send", !.file = "closed"]
  /\ UNCHANGED <<env, auth, sequentialVars, threads, report, lookup>>

\* return self._send_request("POST", url, files=files): requests.request is
\* called with the file object as it is now; a ValueError of the
\* preparation is no RequestException and leaves _send_request as it is
U_SendRequest(answer) ==
  /\ upload.pc = "send"
  /\ LET enc == encode_files(upload.file) IN
       upload' = [upload EXCEPT
         !.pc = "done", !.issued = TRUE, !.file_at_issue = upload.file,
         !.result =
           IF enc.raised THEN [kind |-> "raise", exc |-> enc.e]
           ELSE IF after_attempt(DefaultRetry, "POST", answer) = "raise"
           THEN on_RequestException("MAM", None)
           ELSE on_response("MAM", answer)]
  /\ UNCHANGED <<env, auth, sequentialVars, threads, report, lookup>>

NextUpload ==
  \/ \E exists \in BOOLEAN : U_Open(exists)
  \/ U_ExitWith
  \/ \E a \in Answers : U_SendRequest(a)

SpecUpload == Init /\ [][NextUpload]_vars

(***************************************************************************)
(* System: the event notification methods, as the class body defines them. *)
(***************************************************************************)
SystemSeg == <<"/", "s", "y", "s", "t", "e", "m">>
EventNotificationsSeg ==
  <<"/", "e", "v", "e", "n", "t", "n", "o", "t", "i", "f", "i", "c", "a",
    "t", "i", "o", "n", "s">>
V1Seg == <<"/", "V", "1">>
SearchSeg == <<"/", "s", "e", "a", "r", "c", "h">>
NotificationId == <<"/", "7">>

LegacyPath == SystemSeg \o EventNotificationsSeg
V1Path == LegacyPath \o V1Seg \o EventNotificationsSeg

\* the def statements of the class body whose URL lies under
\* /system/eventnotifications, in the order the class body executes them
SystemClassBody ==
  <<[name |-> "delete_event_notification_rule", method |-> "DELETE",
     style |-> "send", path |-> V1Path \o NotificationId],
    [name |-> "search_event_notifications", method |-> "GET",
     style |-> "params", path |-> V1Path \o SearchSeg],
    [name |-> "create_event_notification_rule", method |-> "POST",
     style |-> "send", path |-> LegacyPath],
    [name |-> "create_event_notification_rule", method |-> "POST",
     style |-> "send", path |-> V1Path],
    [name |-> "get_event_notification_rule_by_id", method |-> "GET",
     style |-> "send", path |-> LegacyPath \o NotificationId],
    [name |-> "update_event_notification_rule", method |-> "PUT",
     style |-> "send", path |-> V1Path \o NotificationId],
    [name |-> "get_event_notification_rule", method |-> "GET",
     style |-> "send", path |-> V1Path \o NotificationId]>>

SystemMethodNames == {SystemClassBody[i].name : i \in DOMAIN SystemClassBody}

DefinitionsOf(name) ==
  {i \in DOMAIN SystemClassBody : SystemClassBody[i].name = name}

Max(S) == CHOOSE x \in S : \A y \in S : y <= x

bound_method_FirstDefinition(name) == SystemClassBody[Min(DefinitionsOf(name))]

\* the attribute of the class after its body has run: each def statement
\* binds its name anew, so the last one with the name is what a call reaches
bound_method(name) == SystemClassBody[Max(DefinitionsOf(name))]

\* system.<name>(...): the method the name is bound to formats its URL and
\* dispatches
CallSystem(name, der) ==
  LET d == bound_method(name)
  IN Dispatch("System", d.method, d.style, [path |-> d.path, query |-> <<>>], der)

NextSystem ==
  \/ \E name \in SystemMethodNames, der \in Containers : CallSystem(name, der)
  \/ \E a \in Answers : Transport(a)
  \/ Return

SpecSystem == Init /\ [][NextSystem]_vars

(***************************************************************************)
(* examples/device_health_report.py: DeviceHealthReportTracker.            *)
(***************************************************************************)
MaxPages == 2
PageSize == 5000

\* math.ceil(a / b) of integers a >= 0 and b > 0
ceil(a, b) == IF a % b = 0 THEN a \div b ELSE (a \div b) + 1

set_max_amount_of_pages(self, total_devices, page_size) ==
  [self EXCEPT !.max_amount_of_pages = ceil(total_devices, page_size)]

increment_page_Inclusive(self) ==
  IF self.page_counter <= self.max_amount_of_pages
  THEN [self EXCEPT !.page_counter = @ + 1, !.make_next_call = TRUE]
  ELSE [self EXCEPT !.make_next_call = FALSE]

increment_page(self) ==
  IF self.page_counter < self.max_amount_of_pages
  THEN [self EXCEPT !.page_counter = @ + 1, !.make_next_call = TRUE]
  ELSE [self EXCEPT !.make_next_call = FALSE]

\* the device totals the count request can report: around each multiple of
\* the page size
Totals ==
  {k * PageSize + r : k \in 0..(MaxPages - 1), r \in {0, 1, PageSize - 1}}
    \cup {MaxPages * PageSize}

\* the (total_devices, page_size) a tracker is given: those of the report,
\* and small ones with pages of one and two devices
TrackerArgs ==
  (Totals \X {PageSize}) \cup ((0..(2 * MaxPages)) \X {1, 2})

\* the tracker on its own, driven as run_airwatch_device_health_check
\* drives it: built, given its maximum once, then incremented
K_New(page_size) ==
  /\ report' = [NoReport EXCEPT !.pc = "tracker",
                                !.tracker = Some(DeviceHealthReportTracker(page_size))]
  /\ UNCHANGED <<env, auth, sequentialVars, threads, upload, lookup>>

K_SetMax(total_devices, page_size) ==
  /\ report.pc = "tracker"
  /\ report' = [report EXCEPT
       !.pc = "paging",
       !.tracker = Some(set_max_amount_of_pages(report.tracker.v,
                                                total_devices, page_size))]
  /\ UNCHANGED <<env, auth, sequentialVars, threads, upload, lookup>>

K_Increment ==
  /\ report.pc = "paging"
  /\ report' = [report EXCEPT !.tracker = Some(increment_page(report.tracker.v))]
  /\ UNCHANGED <<env, auth, sequentialVars, threads, upload, lookup>>

NextTracker ==
  \/ \E a \in TrackerArgs : K_New(a[2])
  \/ \E a \in TrackerArgs : K_SetMax(a[1], a[2])
  \/ K_Increment

SpecTracker == Init /\ [][NextTracker]_vars

(***************************************************************************)
(* examples/device_health_report.py: run_airwatch_device_health_check.     *)
(***************************************************************************)
\* the entries of the list the report returns: devices, or the exception
\* the except clause of the loop puts there
Device(id) == [kind |-> "device", id |-> id]
ErrorEntry(e) == [kind |-> "error", id |-> e.exc]

DeviceLists == {<<>>, <<Device("d1")>>, <<Device("d2")>>}

\* the mapping MDM.get_device_health_check returns: each key present or not
Mapping(total, devices) == [Total |-> total, Devices |-> devices]

\* mapping.get(key, default)
get(value, default) == IF IsNone(value) THEN default ELSE value.v

\* what mdm.get_device_health_check(...) gives its caller: the mapping
\* _send_request returns, or the APIRequestError it raises
Raised == [kind |-> "raise", exc |-> "APIRequestError"]
Returned(mapping) == [kind |-> "return", value |-> mapping]

CountOutcomes ==
  {Returned(Mapping(Some(t), None)) : t \in Totals}
    \cup {Returned(Mapping(None, None)), Raised}

PageOutcomes ==
  {Returned(Mapping(None, Some(l))) : l \in DeviceLists}
    \cup {Returned(Mapping(None, None)), Raised}

HealthCheckArgs(page_size, page) == [page_size |-> page_size, page |-> page]

\* the try block of the loop after a page came back
page_received_Overwrites(all_device_data, api_response) ==
  get(api_response.Devices, <<>>)

page_received(all_device_data, api_response) ==
  all_device_data \o get(api_response.Devices, <<>>)

\* the except clause of the loop
page_failed_KeepsCollected(all_device_data, e) ==
  Append(all_device_data, ErrorEntry(e))

page_failed(all_device_data, e) == <<ErrorEntry(e)>>

\* the call: the tracker is built and the count request goes out
R_Start ==
  /\ report.pc = "idle"
  /\ report' = [NoReport EXCEPT
       !.pc = "count",
       !.tracker = Some(DeviceHealthReportTracker(PageSize)),
       !.count_requests = <<HealthCheckArgs(1, 0)>>]
  /\ UNCHANGED <<env, auth, sequentialVars, threads, upload, lookup>>

\* the count request ends: the maximum is set and the first page request
\* goes out, or the except clause returns the empty list
R_Count(outcome) ==
  /\ report.pc = "count"
  /\ IF outcome.kind = "raise"
     THEN report' = [report EXCEPT
            !.pc = "done", !.failed = "count",
            !.result = [kind |-> "return", value |-> <<>>]]
     ELSE LET total_devices == get(outcome.value.Total, 0)
              tracker == set_max_amount_of_pages(report.tracker.v,
                           total_devices, report.tracker.v.page_size)
          IN report' = [report EXCEPT
               !.pc = "page",
               !.total_devices = total_devices,
               !.tracker = Some(tracker),
               !.requested = <<HealthCheckArgs(tracker.page_size,
                                               tracker.page_counter)>>]
  /\ UNCHANGED <<env, auth, sequentialVars, threads, upload, lookup>>

\* a page request ends: its devices are added and the page counter moves,
\* then the loop test sends the next page request or ends the loop; or the
\* except clause replaces the list and breaks
R_Page(outcome) ==
  /\ report.pc = "page"
  /\ IF outcome.kind = "raise"
     THEN LET all_device_data == page_failed(report.all_device_data, outcome)
          IN report' = [report EXCEPT
               !.pc = "done", !.failed = "page",
               !.all_device_data = all_device_data,
               !.result = [kind |-> "return", value |-> all_device_data]]
     ELSE LET all_device_data ==
                page_received(report.all_device_data, outcome.value)
              tracker == increment_page(report.tracker.v)
          IN report' = [report EXCEPT
               !.tracker = Some(tracker),
               !.pages = Append(@, get(outcome.value.Devices, <<>>)),
               !.all_device_data = all_device_data,
               !.pc = IF tracker.make_next_call THEN "page" ELSE "done",
               !.requested =
                  IF tracker.make_next_call
                  THEN Append(@, HealthCheckArgs(tracker.page_size,
                                                 tracker.page_counter))
                  ELSE @,
               !.result =
                  IF tracker.make_next_call THEN @
                  ELSE [kind |-> "return", value |-> all_device_data]]
  /\ UNCHANGED <<env, auth, sequentialVars, threads, upload, lookup>>

NextReport ==
  \/ R_Start
  \/ \E o \in CountOutcomes : R_Count(o)
  \/ \E o \in PageOutcomes : R_Page(o)

SpecReport == Init /\ [][NextReport]_vars

\* every request of the report ends: _send_request passes timeout=90
FairSpecReport == SpecReport /\ WF_vars(NextReport)

(***************************************************************************)
(* examples/device_look_up.py: get_device_extensive_search.                *)
(***************************************************************************)
\* the arguments of a call: each absent (None), empty or zero, or a value
SerialNumbers == {None, Some(<<>>), Some(<<"S", "1">>)}
DeviceIds == {None, Some(0), Some(7)}

\* Python truthiness of an optional int: None and 0 are falsy
FalsyInt(x) == IsNone(x) \/ x.v = 0

\* str() of a one-digit int, as the f-string of the URL formats it
DigitChars == <<"0", "1", "2", "3", "4", "5", "6", "7", "8", "9">>
str(n) == <<DigitChars[n + 1]>>

\* mdm.extensive_search_device_details(device_identifier, search_type): the
\* query ?{search_type}={device_identifier} of the URL it requests
Search(search_type, device_identifier) ==
  [search_type |-> search_type, device_identifier |-> device_identifier]

\* the mappings a call returns: the body of the search, or an error text
LookupMapping(error, body) == [error |-> error, body |-> body]
NoParameters == LookupMapping(Some("No valid parameters provided"), None)
SearchOutcomes ==
  {Returned(LookupMapping(None, Some(b))) : b \in {"device", "empty"}}
    \cup {Raised}

\* the if/elif with the device id tested first
search_for_PrefersDeviceId(device_serial_number, device_id) ==
  IF Falsy(device_serial_number) /\ FalsyInt(device_id) THEN None
  ELSE IF ~FalsyInt(device_id) THEN Some(Search("deviceId", str(device_id.v)))
  ELSE Some(Search("serialNumber", device_serial_number.v))

\* the validation and the if/elif: the search a call makes, None when it
\* returns the error mapping without one
search_for(device_serial_number, device_id) ==
  IF Falsy(device_serial_number) /\ FalsyInt(device_id) THEN None
  ELSE IF ~Falsy(device_serial_number)
  THEN Some(Search("serialNumber", device_serial_number.v))
  ELSE Some(Search("deviceId", str(device_id.v)))

\* the call up to its search request, or to the return of the validation
L_Call(device_serial_number, device_id) ==
  /\ lookup.pc = "idle"
  /\ LET search == search_for(device_serial_number, device_id)
     IN lookup' =
          [pc |-> IF IsNone(search) THEN "done" ELSE "search",
           device_serial_number |-> device_serial_number,
           device_id |-> device_id,
           searches |-> IF IsNone(search) THEN <<>> ELSE <<search.v>>,
           result |-> IF IsNone(search)
                      THEN [kind |-> "return", value |-> NoParameters]
                      ELSE Pending]
  /\ UNCHANGED <<env, auth, sequentialVars, threads, upload, report>>

\* the search ends: its mapping is returned, or the except clause returns
\* the error mapping
L_Answer(outcome) ==
  /\ lookup.pc = "search"
  /\ lookup' = [lookup EXCEPT
       !.pc = "done",
       !.result = [kind |-> "return",
                   value |-> IF outcome.kind = "raise"
                             THEN LookupMapping(Some("str(e)"), None)
                             ELSE outcome.value]]
  /\ UNCHANGED <<env, auth, sequentialVars, threads, upload, report>>

NextLookup ==
  \/ \E s \in SerialNumbers, d \in DeviceIds : L_Call(s, d)
  \/ \E o \in SearchOutcomes : L_Answer(o)

SpecLookup == Init /\ [][NextLookup]_vars

\* the base URLs a caller of get_cmsurl_header formats its URL from: those
\* of the environments, and one whose host has an unmatched bracket
MalformedUrl == <<"h", "t", "t", "p", "s", ":", "/", "/", "[", "h">>
CallerUrls == ApiUrls \cup {MalformedUrl}

\* the authenticator on its own, called directly
NextAuth ==
  \/ \E cfg \in AuthConfigs : NewAuth(cfg)
  \/ \E u \in CallerUrls, e \in Endpoints, der \in Containers : GetHeader(u, e, der)

SpecAuth == Init /\ [][NextAuth]_vars

(***************************************************************************)
(* Properties.                                                             *)
(***************************************************************************)
Dispatched == call.client \in Clients /\ pc \in {"transport", "done"}

\* the get_cmsurl_header invocation whose header the request was built with
HeaderCall == authCalls[Len(authCalls)]

\* C1: a dispatch call whose authenticator step produced no header
\* (get_cmsurl_header returned None) never reaches the transport.
C1_NoHeaderNoRequest ==
  (Dispatched /\ IsNone(headers["Authorization"])) => attempts = <<>>

\* C2: the bytes handed to the signer are the UTF-8 encoding of the path
\* component of the URL (the path the URL was formatted with), whatever its
\* scheme, host and query string.
C2_SignsPathComponent ==
  \A i \in DOMAIN authCalls :
    authCalls[i].signed => authCalls[i].signInput = encode_utf8(call.path)

\* C3: every request on the wire carries an Authorization header, the one
\* computed in this call over the path of the URL the request goes to.
C3_OneAuthorizationForThisUrl ==
  (Dispatched /\ attempts # <<>>) =>
    /\ "Authorization" \in DOMAIN sent.headers
    /\ ~IsNone(HeaderCall.ret)
    /\ sent.headers["Authorization"] = HeaderCall.ret.v
    /\ HeaderCall.signInput = encode_utf8(call.path)

\* the certificate load of the current authenticator fails or yields no key
\* or no certificate
LoadFails ==
  LET load == _load_p12_cert(auth, auth.cert_path, auth.cert_pw) IN
    load.raised \/ IsNone(load.key) \/ IsNone(load.cert)

\* C4: when loading the bundle fails or yields no private key or no
\* certificate, get_cmsurl_header returns no header and never calls
\* _sign_data.
C4_LoadFailureNeverSigns ==
  \A i \in DOMAIN authCalls :
    LoadFails => (IsNone(authCalls[i].ret) /\ ~authCalls[i].signed)

C4_Witness ==
  /\ authCalls # <<>>
  /\ LoadFails
  /\ auth.use_memory_cert
  /\ auth.cert_bytes = Some("p12_no_key")
  /\ IsNone(authCalls[1].ret)

\* base64 read back: the index of a character and the bytes of a text
B64Index(c) == CHOOSE n \in 0..63 : B64Alphabet[n + 1] = c

B64Chars == {B64Alphabet[i] : i \in DOMAIN B64Alphabet}

ValidBase64(s) ==
  /\ Len(s) % 4 = 0
  /\ \A i \in DOMAIN s :
       \/ s[i] \in B64Chars
       \/ s[i] = "=" /\ i >= Len(s) - 1 /\ s[Len(s)] = "="

RECURSIVE B64Decode(_)
B64Decode(s) ==
  IF Len(s) < 4 THEN <<>>
  ELSE LET n1 == B64Index(s[1])
           n2 == B64Index(s[2])
           rest == B64Decode(SubSeq(s, 5, Len(s)))
       IN IF s[3] = "=" THEN <<n1 * 4 + (n2 \div 16)>>
          ELSE LET n3 == B64Index(s[3]) IN
            IF s[4] = "="
            THEN <<n1 * 4 + (n2 \div 16), (n2 % 16) * 16 + (n3 \div 4)>>
            ELSE <<n1 * 4 + (n2 \div 16), (n2 % 16) * 16 + (n3 \div 4),
                   (n3 % 4) * 64 + B64Index(s[4])>> \o rest

LiteralTag == <<"C", "M", "S", "U", "R", "L", Backtick, "1">>

\* C5: every header get_cmsurl_header returns is the literal CMSURL`1, one
\* space, and the base64 text of the container the signer produced, with
\* nothing before or after.
C5_HeaderFormat ==
  \A i \in DOMAIN authCalls :
    ~IsNone(authCalls[i].ret) =>
      LET h == authCalls[i].ret.v
          b64 == SubSeq(h, Len(LiteralTag) + 2, Len(h))
      IN /\ Len(h) > Len(LiteralTag) + 1
         /\ SubSeq(h, 1, Len(LiteralTag)) = LiteralTag
         /\ h[Len(LiteralTag) + 1] = " "
         /\ ValidBase64(b64)
         /\ ~IsNone(authCalls[i].container)
         /\ B64Decode(b64) = authCalls[i].container.v

C5_Witness ==
  /\ authCalls # <<>>
  /\ ~IsNone(authCalls[1].ret)
  /\ Len(authCalls[1].container.v) = 2
  /\ call.path = <<"/", EAcute>>

\* C6: what get_cmsurl_header gives its caller for a certificate-load
\* failure differs from what it gives for a signing failure.
C6_FailuresDistinguishable ==
  (~IsNone(failureRets.certificate) /\ ~IsNone(failureRets.signing)) =>
    failureRets.certificate.v # failureRets.signing.v

Is503(answer) == answer.kind = "response" /\ answer.status_code = 503

Is200(answer) == answer.kind = "response" /\ answer.status_code = 200

\* the answers so far follow the script 503, 503, 503, 200
FollowsScript503x3Then200 ==
  /\ attempts # <<>>
  /\ Len(attempts) <= 4
  /\ \A i \in DOMAIN attempts : IF i <= 3 THEN Is503(attempts[i]) ELSE Is200(attempts[i])

\* the body of a response as a mapping
ParsedBody(text) == IF text = JsonText THEN {<<"k", 1>>} ELSE {}

Returned200Body ==
  IF Len(attempts) = 4
  THEN result = [kind |-> "return", value |-> ParsedBody(attempts[4].text)]
  ELSE pc = "transport" /\ result.kind = "pending"

IdempotentMethods == {"GET", "HEAD", "PUT", "DELETE", "OPTIONS", "TRACE"}

SentOverHttps == StartsWith(call.url, HttpsPrefix)

C8_Fourth503Raises ==
  (Dispatched /\ call.client = "System" /\ Len(attempts) >= 4
     /\ \A i \in 1..4 : Is503(attempts[i]))
    => /\ pc = "done"
       /\ Len(attempts) = 4
       /\ result.kind = "raise"
       /\ result.exc = "APIRequestError"

C8_Witness ==
  /\ call.client = "System"
  /\ Len(attempts) = 4
  /\ \A i \in 1..4 : Is503(attempts[i])
  /\ result.kind = "raise"

\* the answers of this call that were followed by another attempt
Retried == {i \in DOMAIN attempts : i < Len(attempts) \/ pc = "transport"}

\* C9 as stated: a System call makes at most 3 retries, each of them after a
\* response with status 500, 502, 503 or 504.
C9_RetryOnlyAfter5xx ==
  (Dispatched /\ call.client = "System") =>
    /\ Len(attempts) <= 4
    /\ \A i \in Retried :
         /\ attempts[i].kind = "response"
         /\ attempts[i].status_code \in {500, 502, 503, 504}

\* C9 as amended: a System call makes at most 3 retries, only to an https://
\* URL, each of them after a connection failure or, for an idempotent
\* method, after a read failure, a response with status 500, 502, 503 or
\* 504, or a 413, 429 or 503 response that carries Retry-After; a 401 or a
\* 404 answer is never retried.
C9_RetryPolicy ==
  (Dispatched /\ call.client = "System") =>
    /\ Len(attempts) <= 4
    /\ \A i \in Retried :
         /\ SentOverHttps
         /\ \/ attempts[i].kind = "connect_error"
            \/ /\ call.method \in IdempotentMethods
               /\ \/ attempts[i].kind = "read_error"
                  \/ /\ attempts[i].kind = "response"
                     /\ \/ attempts[i].status_code \in {500, 502, 503, 504}
                        \/ /\ attempts[i].status_code \in {413, 429, 503}
                           /\ attempts[i].retry_after
    /\ \A i \in Retried :
         attempts[i].kind = "response" => attempts[i].status_code \notin {401, 404}

C9_Witness ==
  /\ call.client = "System"
  /\ pc = "done"
  /\ Len(attempts) = 4
  /\ attempts[1].kind = "response" /\ attempts[1].status_code = 429
  /\ attempts[2].kind = "connect_error"
  /\ attempts[3].kind = "response" /\ attempts[3].status_code = 504
  /\ attempts[4].kind = "response" /\ attempts[4].status_code = 404

\* C10: in every dispatcher, a call whose request is answered 404 raises
\* APIRequestError with status code 404 after that one attempt.
C10_NotFoundCarries404 ==
  (Dispatched /\ attempts # <<>> /\ attempts[1].kind = "response"
     /\ attempts[1].status_code = 404)
    => /\ pc = "done"
       /\ Len(attempts) = 1
       /\ result.kind = "raise"
       /\ result.exc = "APIRequestError"
       /\ result.status_code = Some(404)

\* the answer that ended the call
LastAnswer == attempts[Len(attempts)]

\* the exchange failed: its last answer is a connection failure, a timeout
\* or a response with a non-success status
ExchangeFailed ==
  /\ Dispatched /\ pc = "done"
  /\ \/ LastAnswer.kind # "response"
     \/ LastAnswer.status_code >= 400

\* C11: in every dispatcher, a call whose exchange failed raises
\* APIRequestError and returns nothing; the error carries the status code of
\* the response when a response was received, and no status code when none
\* was.
C11_FailureRaisesWithStatus ==
  ExchangeFailed =>
    /\ result.kind = "raise"
    /\ result.exc = "APIRequestError"
    /\ result.status_code =
         IF LastAnswer.kind = "response" THEN Some(LastAnswer.status_code)
         ELSE None

\* the call ended on a response with a success status
ExchangeSucceeded ==
  /\ Dispatched /\ pc = "done"
  /\ LastAnswer.kind = "response"
  /\ LastAnswer.status_code < 400

\* C12: in every dispatcher, a call that ended on a success response returns
\* and raises nothing: the empty mapping when the body is empty, the body
\* parsed as JSON when it is not.
C12_SuccessReturnsBody ==
  ExchangeSucceeded =>
    /\ result.kind = "return"
    /\ LastAnswer.text = EmptyText => result.value = {}
    /\ LastAnswer.text = JsonText => result.value = {<<"k", 1>>}
    /\ LastAnswer.text \in {EmptyText, JsonText}

C12_Witness ==
  /\ ExchangeSucceeded
  /\ call.client = "MAM"
  /\ ~IsNone(HeaderCall.ret)
  /\ LastAnswer.text = EmptyText
  /\ result = [kind |-> "return", value |-> {}]

\* C13: invalid certificate credentials (an empty path, a missing file, an
\* empty or wrong password, bytes that hold no usable bundle) are rejected
\* when the authenticator is constructed: no get_cmsurl_header call on a
\* constructed authenticator fails on loading the certificate.
C13_NoConfigErrorAtCallTime ==
  \A i \in DOMAIN authCalls : authCalls[i].failure # "certificate"

\* an AWEnvironment construction has just run; its three arguments
Constructed == call.client = "AWEnvironment" /\ pc = "done"
ArgApiUrl == call.params[1]
ArgTenantCode == call.params[2]
ArgParentOg == call.params[3]

EmptyOrAbsent(x) == x = None \/ x = Some(<<>>)

\* C14: constructing AWEnvironment raises exactly when api_url or
\* tenant_code is empty or absent; otherwise the object holds the given
\* api_url, tenant_code and parent_og unchanged, parent_og given or not.
C14_EnvironmentConstruction ==
  Constructed =>
    IF EmptyOrAbsent(ArgApiUrl) \/ EmptyOrAbsent(ArgTenantCode)
    THEN result.kind = "raise"
    ELSE /\ result.kind = "return"
         /\ env = result.value
         /\ Some(env.api_url) = ArgApiUrl
         /\ Some(env.tenant_code) = ArgTenantCode
         /\ env.parent_og = ArgParentOg

C14_Witness ==
  /\ Constructed
  /\ result.kind = "return"
  /\ ArgParentOg = None
  /\ env.parent_og = None
  /\ env.tenant_code = TenantCode

\* the method set the versioned type on the headers it built
SetsVersionedAccept ==
  /\ Dispatched
  /\ "Accept" \in DOMAIN headers
  /\ headers["Accept"] = Some(AcceptV1)

\* C15: when a System method sets Accept: application/json;version=1 on the
\* headers it builds, the request it sends carries that header.
C15_AcceptOverrideSent ==
  SetsVersionedAccept =>
    /\ "Accept" \in DOMAIN sent.headers
    /\ sent.headers["Accept"] = AcceptV1

\* C16: every request a resource client method issues, through
\* _send_request or through the session directly, in every dispatcher and
\* on every attempt, is issued with timeout 90.
C16_TimeoutAlways90 ==
  Dispatched => sent.timeout = 90

C16_Witness ==
  /\ Dispatched
  /\ call.client = "System"
  /\ call.style = "accept_direct"
  /\ Len(attempts) = 2
  /\ sent.timeout = 90

\* the attributes of a WorkspaceOneAuth object: cert_path, cert_pw and, set
\* by from_memory, cert_bytes and use_memory_cert
AuthFields == {"cert_path", "cert_pw", "use_memory_cert", "cert_bytes"}

\* the log entries _load_p12_cert ends with
LoadLogs == {"Successfully loaded PKCS#12 certificate", "Error loading PKCS#12 file"}

\* this step is a get_cmsurl_header call
HeaderCallStep == pc' = "done" /\ call'.style = "auth"

\* C17: a get_cmsurl_header call, successful or failed, leaves the
\* authenticator's certificate path, bytes, password and memory flag as they
\* were and puts no key or certificate on the object; the call does its own
\* certificate load, whose outcome is that of the object's configuration.
C17_CallLeavesAuthenticator ==
  [][HeaderCallStep =>
       /\ auth' = auth
       /\ DOMAIN auth' = AuthFields
       /\ \A i \in DOMAIN authCalls' :
            /\ authCalls'[i].log[1].msg \in LoadLogs
            /\ (authCalls'[i].failure = "certificate") = LoadFails']_vars

C17_Witness ==
  /\ call.style = "auth" /\ pc = "done"
  /\ ~IsNone(failureRets.certificate)
  /\ ~IsNone(HeaderCall.ret)
  /\ auth = WorkspaceOneAuth("client.p12", "pw")

\* C18: a signing call of an authenticator built with from_memory opens no
\* file and parses exactly the bytes given at construction; a signing call
\* of an authenticator built from a path opens and reads that path, on each
\* call.
C18_MemoryNeverOpensFile ==
  \A i \in DOMAIN authCalls :
    IF auth.use_memory_cert
    THEN /\ ~authCalls[i].opened
         /\ authCalls[i].parsed = auth.cert_bytes
    ELSE /\ authCalls[i].opened
         /\ authCalls[i].parsed = ReadFile(auth.cert_path)

C18_Witness ==
  /\ authCalls # <<>>
  /\ auth = from_memory("p12_rsa", "pw")
  /\ ~HeaderCall.opened
  /\ HeaderCall.parsed = Some("p12_rsa")
  /\ ~IsNone(HeaderCall.ret)

\* thread t's request is with the transport or answered
Requested(t) == threads[t].pc \in {"wait", "done"}

\* what an answer gives a call that runs alone
OutcomeOf(answer) ==
  IF answer.kind = "response" /\ answer.status_code < 400
  THEN [kind |-> "return", value |-> ParsedBody(answer.text)]
  ELSE APIRequestError("API request failed",
         IF answer.kind = "response" THEN Some(answer.status_code) ELSE None)

\* C19: when calls for different URLs run concurrently over one shared
\* AWEnvironment and one shared WorkspaceOneAuth, under every interleaving
\* each request is sent with the header signed over the path of its own URL,
\* and each call's outcome is the one its own answer gives.
C19_EachSignedOverOwnPath ==
  \A t \in Threads :
    /\ Requested(t) =>
         /\ "Authorization" \in DOMAIN threads[t].sent.headers
         /\ ~IsNone(threads[t].hc.container)
         /\ threads[t].sent.headers["Authorization"]
              = CMSURLPrefix \o b64encode(threads[t].hc.container.v)
         /\ threads[t].hc.signInput = encode_utf8(threads[t].path)
    /\ threads[t].pc = "done" => threads[t].result = OutcomeOf(threads[t].answer.v)

\* no step of a concurrent call writes the shared environment or
\* authenticator, or the locals of another thread's call
C19_NoInterference ==
  [][/\ env' = env
     /\ auth' = auth
     /\ \A t, u \in Threads :
          (t # u /\ threads'[t] # threads[t]) => threads'[u] = threads[u]]_vars

\* the values interpolated into the records of a log
LoggedTexts(log) ==
  UNION {{log[i].arg[k] : k \in DOMAIN log[i].arg} : i \in DOMAIN log}

\* the secrets of an authenticator: its password and the bytes of its
\* bundle, held in memory or in the file at its path
SecretsOf(cfg) ==
  {cfg.cert_pw}
    \cup (IF IsNone(cfg.cert_bytes) THEN {} ELSE {cfg.cert_bytes.v})
    \cup (IF cfg.use_memory_cert \/ IsNone(ReadFile(cfg.cert_path)) THEN {}
          ELSE {ReadFile(cfg.cert_path).v})

NoSecretLogged ==
  \A i \in DOMAIN authCalls :
    LoggedTexts(authCalls[i].log) \cap SecretsOf(auth) = {}

\* two authenticators that differ in their secrets at most
DiffersOnlyInSecrets(a, b) ==
  a.cert_path = b.cert_path /\ a.use_memory_cert = b.use_memory_cert

\* how the certificate load of an authenticator ends: the exception raised,
\* or which of key and certificate the bundle holds
LoadEnd(cfg) ==
  LET file == IF cfg.use_memory_cert THEN cfg.cert_bytes ELSE ReadFile(cfg.cert_path)
  IN IF IsNone(file)
     THEN [raised |-> TRUE, e |-> "FileNotFoundError", msg |-> ""]
     ELSE LET r == pkcs12_load_key_and_certificates(file.v, cfg.cert_pw) IN
       IF r.raised THEN [raised |-> TRUE, e |-> r.e, msg |-> r.msg]
       ELSE [raised |-> FALSE, no_key |-> IsNone(r.key), no_cert |-> IsNone(r.cert)]

SystemConstructed ==
  call.client = "System" /\ call.method = "__init__" /\ pc = "done"

\* C21: constructing a System client from a constructed AWEnvironment and a
\* WorkspaceOneAuth raises nothing and leaves a client whose api_url and
\* tenant_code are the environment's and whose session has the retry policy
\* mounted.
C21_SystemConstructs ==
  SystemConstructed =>
    /\ result.kind = "return"
    /\ result.value.api_url = Some(env.api_url)
    /\ result.value.tenant_code = Some(env.tenant_code)
    /\ result.value.mounted = {<<HttpsPrefix, SystemRetry>>}

\* C22: in MAM.upload_blob the file opened for upload is open when the
\* request carrying it is issued, and is closed only after the request.
C22_FileOpenAtRequest ==
  upload.issued => upload.file_at_issue = "open"

\* a caller's own get_cmsurl_header call has ended
HeaderCallEnded == call.style = "auth" /\ pc = "done"

\* the call gave its caller a header text or None and raised nothing
ReturnedHeaderOrNone ==
  /\ result.kind = "return"
  /\ IsNone(HeaderCall.raised)
  /\ \/ result.value = None
     \/ /\ ~IsNone(result.value)
        /\ SubSeq(result.value.v, 1, Len(CMSURLPrefix)) = CMSURLPrefix

\* C23 as stated: for any input get_cmsurl_header either returns a header
\* string or returns None: the CMSURLError of the certificate load and the
\* null sentinel of the signer both become None, and CMSURLError never
\* reaches the caller.
C23_AlwaysHeaderOrNone ==
  HeaderCallEnded => ReturnedHeaderOrNone

\* C23 as amended: CMSURLError never reaches the caller of
\* get_cmsurl_header, a failed certificate load and a failed signing both
\* give None, and for every URL urlparse accepts the call returns a header
\* string or None.
C23_NoCMSURLErrorEscapes ==
  HeaderCallEnded =>
    /\ HeaderCall.raised # Some("CMSURLError")
    /\ result.kind = "raise" => result.exc # "CMSURLError"
    /\ HeaderCall.failure \in {"certificate", "signing"} =>
         result = [kind |-> "return", value |-> None]
    /\ ~urlparse_raises(call.url) => ReturnedHeaderOrNone

C23_Witness ==
  /\ HeaderCallEnded
  /\ auth = WorkspaceOneAuth("missing.p12", "pw")
  /\ HeaderCall.failure = "certificate"
  /\ result = [kind |-> "return", value |-> None]
  /\ ~IsNone(failureRets.signing)

\* what a call of create_event_notification_rule has sent
CreateRuleStep ==
  \E der \in Containers : CallSystem("create_event_notification_rule", der)

PostsTo(path) ==
  /\ Dispatched
  /\ call.client = "System"
  /\ sent.method = "POST"
  /\ call.url = env.api_url \o path

\* C24: of the two definitions of create_event_notification_rule only the
\* later one is callable: every call of the method sends a POST to
\* /system/eventnotifications/V1/eventnotifications, and no System operation
\* sends a POST to the legacy /system/eventnotifications path.
C24_LaterDefinitionCalled ==
  /\ [][CreateRuleStep => PostsTo(V1Path)']_vars
  /\ [](~PostsTo(LegacyPath))

C24_Witness ==
  /\ PostsTo(V1Path)
  /\ pc = "done"
  /\ result.kind = "return"

ServerErrors == {500, 502, 503, 504}

Tracker == report.tracker.v

\* C27: once set_max_amount_of_pages has run, every sequence of
\* increment_page calls keeps 0 <= page_counter <= max_amount_of_pages; each
\* call either raises page_counter by exactly 1 and sets make_next_call, or
\* leaves page_counter as it is and clears make_next_call; and a cleared
\* make_next_call stays cleared under further calls.
C27_IncrementPage ==
  /\ [](report.pc = "paging"
          => /\ 0 <= Tracker.page_counter
             /\ Tracker.page_counter <= Tracker.max_amount_of_pages)
  /\ [][K_Increment
          => /\ \/ /\ Tracker.page_counter' = Tracker.page_counter + 1
                   /\ Tracker.make_next_call'
                \/ /\ Tracker.page_counter' = Tracker.page_counter
                   /\ ~Tracker.make_next_call'
             /\ ~Tracker.make_next_call => ~Tracker.make_next_call']_vars

C27_Witness ==
  /\ report.pc = "paging"
  /\ Tracker.max_amount_of_pages = 2
  /\ Tracker.page_counter = 2
  /\ ~Tracker.make_next_call

PageRequests == Len(report.requested)
MaxSet == report.pc \in {"page", "done"} /\ report.failed # "count"

\* n is ceil(a / b): the least whole number of pages of b that hold a
IsCeiling(n, a, b) == n * b >= a /\ (n - 1) * b < a

\* C26: in run_airwatch_device_health_check max_amount_of_pages is
\* ceil(total_devices / page_size), and the loop never issues more page
\* requests than max_amount_of_pages (the count request not counted).
C26_PageRequestsWithinMax ==
  MaxSet
    => /\ IsCeiling(Tracker.max_amount_of_pages, report.total_devices,
                    Tracker.page_size)
       /\ PageRequests <= Tracker.max_amount_of_pages

RECURSIVE Concat(_)
Concat(lists) ==
  IF lists = <<>> THEN <<>> ELSE Head(lists) \o Concat(Tail(lists))

NoRequestFailed == report.failed = "none"

\* the page indices requested are 0, 1, 2, ... in that order
PagesInOrder ==
  \A i \in 1..PageRequests : report.requested[i].page = i - 1

\* C28: when every API call succeeds run_airwatch_device_health_check
\* terminates; it requests page indices in strictly increasing order from 0,
\* no page twice, and returns the concatenation, in request order, of the
\* Devices lists of all pages it requested.
C28_AllPagesInOrder ==
  /\ [](NoRequestFailed
          => /\ PagesInOrder
             /\ report.pc = "done"
                  => /\ Len(report.pages) = PageRequests
                     /\ report.result
                          = [kind |-> "return", value |-> Concat(report.pages)])
  /\ (report.pc = "count") ~> (report.pc = "done")

C28_Witness ==
  /\ NoRequestFailed
  /\ report.pc = "done"
  /\ report.total_devices > PageSize
  /\ report.pages = <<<<Device("d2")>>, <<Device("d1")>>, <<>>>>

Called == lookup.pc \in {"search", "done"}
SerialGiven == ~Falsy(lookup.device_serial_number)
DeviceIdGiven == ~FalsyInt(lookup.device_id)

\* C30: get_device_extensive_search issues at most one search per call: none
\* when neither a serial number nor a device id is given, the error mapping
\* being returned instead; a search by serialNumber whenever a serial number
\* is given, a device id given or not; a search by deviceId only when just a
\* device id is given.
C30_AtMostOneSearch ==
  Called
    => /\ Len(lookup.searches) <= 1
       /\ (~SerialGiven /\ ~DeviceIdGiven)
            => /\ lookup.searches = <<>>
               /\ lookup.result = [kind |-> "return", value |-> NoParameters]
       /\ SerialGiven
            => lookup.searches
                 = <<Search("serialNumber", lookup.device_serial_number.v)>>
       /\ \A i \in DOMAIN lookup.searches :
            lookup.searches[i].search_type = "deviceId"
              => /\ ~SerialGiven
                 /\ DeviceIdGiven
                 /\ lookup.searches[i].device_identifier = str(lookup.device_id.v)

C30_Witness ==
  /\ lookup.pc = "done"
  /\ SerialGiven
  /\ DeviceIdGiven
  /\ lookup.searches = <<Search("serialNumber", <<"S", "1">>)>>
  /\ lookup.result.value.body = Some("device")

====
